---- MODULE Spec2Model ----
(***************************************************************************)
(* Model of symon's sampling loop (src/src/main.rs): NVML initialisation,  *)
(* the per-pass match on the library handle and the driver version,        *)
(* sample_metrics with its short-circuiting `?` queries, process           *)
(* attribution through pgrep, and the emission of the record.              *)
(*                                                                         *)
(* Abstractions: f64 values are exact rationals (rounding is not           *)
(* modelled), NaN and the infinities are kept; pids stay below 2^31, where *)
(* the cast `p.pid as i32` keeps the value; `stdout` holds the lines       *)
(* written by the startup or by the pass under way (the whole log is       *)
(* unbounded).                                                             *)
(***************************************************************************)
EXTENDS Integers, Sequences, FiniteSets, TLC

VARIABLES
    pc,            \* position of main: start, loop, device, metrics, emit, sleep, panicked
    nvml_result,   \* main: result of Nvml::init(): "none" before it ran, "Ok", "Err"
    pid,           \* main: the target pid parsed from argv
    stdout,        \* lines written to standard output by the pass under way
    gpu_metrics,   \* main: the record of the pass
    metrics,       \* sample_metrics: the map under construction
    device_count,  \* sample_metrics: result of nvml.device_count()
    di,            \* sample_metrics: loop index
    gpu_in_use,    \* sample_metrics: attribution of device di
    our_pids,      \* gpu_in_use_by_process: pid chained with get_child_pids(pid)
    first_pids,    \* history: our_pids of the first device, kept up to the second
    alive,         \* environment: the OS process table (live pids)
    installed,     \* environment: number of devices the library reports
    init_calls,    \* history: number of calls of Nvml::init()
    init_ok,       \* history: the library initialised when the process started
    failed_query,  \* history: the query the environment failed in this pass
    prev_failed,   \* history: a required query failed in the previous pass
    pgrep_outcome, \* history: how the last pgrep invocation ended
    tree_use,      \* history: device di reports a pid of the target's process tree
    attributed,    \* history: devices whose reported pids meet the resolved set
    pl_failed,     \* history: devices whose enforced_power_limit() failed
    ls_failed,     \* history: devices whose pcie_link_speed() failed
    timestamp,     \* main: seconds since the epoch at the start of the pass
    loop_duration, \* main: sampling_start.elapsed() of line 233, in ms
    slept,         \* history: the duration handed to thread::sleep, 0 when not called
    since_start    \* history: ms from sampling_start to the end of the iteration

vars == <<pc, nvml_result, pid, stdout, gpu_metrics, metrics, device_count, di,
          gpu_in_use, our_pids, first_pids, tree_use, alive, installed, init_calls, init_ok,
          failed_query, prev_failed, pgrep_outcome, attributed, pl_failed,
          ls_failed, timestamp, loop_duration, slept, since_start>>

\* the clock of the scheduler
clock == <<loop_duration, slept, since_start>>

(***************************************************************************)
(* Bounds                                                                  *)
(***************************************************************************)
MaxDevices == 2

(***************************************************************************)
(* Result<T, E> and small helpers                                          *)
(***************************************************************************)
Ok(v) == [ok |-> TRUE, v |-> v]
Err == [ok |-> FALSE]

ToSet(s) == {s[k] : k \in 1..Len(s)}

RECURSIVE SortedSeq(_)
SortedSeq(S) ==
    IF S = {} THEN <<>>
    ELSE LET lo == CHOOSE x \in S : \A y \in S : x <= y
         IN <<lo>> \o SortedSeq(S \ {lo})

RECURSIVE Gcd(_, _)
Gcd(a, b) == IF b = 0 THEN a ELSE Gcd(b, a % b)

(***************************************************************************)
(* u32 and u64: little-endian sequences of 4 and 8 bytes                   *)
(***************************************************************************)
RECURSIVE ToBytes(_, _)
ToBytes(n, len) == IF len = 0 THEN <<>> ELSE <<n % 256>> \o ToBytes(n \div 256, len - 1)

U32(n) == ToBytes(n, 4)
U32Max == <<255, 255, 255, 255>>

\* u64::from(x) of a u32: zero extension
U64From(x) == x \o <<0, 0, 0, 0>>

\* the sum of a[i] * b[k + 1 - i] for i in from..k
RECURSIVE SumProducts(_, _, _, _)
SumProducts(a, b, k, from) ==
    IF from > k THEN 0 ELSE a[from] * b[k + 1 - from] + SumProducts(a, b, k, from + 1)

\* the bytes k..Len(a) of a * b modulo 256^Len(a), carry coming from below
RECURSIVE MulFrom(_, _, _, _)
MulFrom(a, b, k, carry) ==
    IF k > Len(a) THEN <<>>
    ELSE LET sum == carry + SumProducts(a, b, k, 1)
         IN <<sum % 256>> \o MulFrom(a, b, k + 1, sum \div 256)

\* a * b in the width of a and b: the product modulo 2^32 or 2^64
WrappingMul(a, b) == MulFrom(a, b, 1, 0)

(***************************************************************************)
(* f64 (non-negative values only) and serde_json values                    *)
(***************************************************************************)
NaN == [kind |-> "nan"]
Inf == [kind |-> "inf"]
Finite(a, b) == LET g == Gcd(a, b) IN [kind |-> "finite", num |-> a \div g, den |-> b \div g]
F64(n) == Finite(n, 1)

\* IEEE-754 division of two non-negative f64 values.
F64Div(x, y) ==
    IF x.kind = "nan" \/ y.kind = "nan" THEN NaN
    ELSE IF x.kind = "inf" THEN (IF y.kind = "inf" THEN NaN ELSE Inf)
    ELSE IF y.kind = "inf" THEN F64(0)
    ELSE IF y.num = 0 THEN (IF x.num = 0 THEN NaN ELSE Inf)
    ELSE Finite(x.num * y.den, x.den * y.num)

\* IEEE-754 product of two non-negative f64 values.
F64Mul(x, y) ==
    IF x.kind = "nan" \/ y.kind = "nan" THEN NaN
    ELSE IF x.kind = "inf" THEN (IF y.kind = "finite" /\ y.num = 0 THEN NaN ELSE Inf)
    ELSE IF y.kind = "inf" THEN (IF x.num = 0 THEN NaN ELSE Inf)
    ELSE Finite(x.num * y.num, x.den * y.den)

JsonNull == [tag |-> "null"]
JsonString(s) == [tag |-> "string", s |-> s]
JsonInt(n) == [tag |-> "number", num |-> n, den |-> 1]
\* json!(u64): the number with all its 64 bits
JsonU64(x) == [tag |-> "number", u64 |-> x]
\* json!(f64): serde_json maps a non-finite float to Value::Null.
JsonF64(x) ==
    IF x.kind = "finite" THEN [tag |-> "number", num |-> x.num, den |-> x.den]
    ELSE JsonNull

EmptyMap == [k \in {} |-> JsonNull]
\* BTreeMap::insert: the new value replaces an old one under the same key.
Insert(m, k, v) == (k :> v) @@ m

\* format!("gpu.{}.<field>", di) and format!("gpu.process.{}.<field>", di)
DevKey(i, f) == "gpu." \o ToString(i) \o "." \o f
ProcKey(i, f) == "gpu.process." \o ToString(i) \o "." \o f

(***************************************************************************)
(* Environment: the OS process table read by pgrep                         *)
(***************************************************************************)
\* The processes of the table that come and go: 2 is a child of pid 1 and 3 a
\* child of 2. Every other process (pid 1 among them) is taken to be running
\* and to have no further children.
Pids == {2, 3}
Ppid(p) == p - 1
TableOk(S) == \A p \in S : Ppid(p) \in Pids => Ppid(p) \in S

\* str::parse::<i32>() on the decimal texts the model uses
ParseI32(s) ==
    IF \E n \in 0..9 : ToString(n) = s
    THEN Ok(CHOOSE n \in 0..9 : ToString(n) = s)
    ELSE Err

\* what `pgrep -P <pid>` writes to its standard output: the direct children
PgrepStdout(p, table) ==
    LET kids == SortedSeq({c \in table : Ppid(c) = p})
    IN [k \in 1..Len(kids) |-> ToString(kids[k])]

PgrepOutcomes == {"ran", "error", "spawn_failed"}

\* get_child_pids, given how the helper process ended ("ran": normal run,
\* "error": pgrep exited with an error and printed nothing to stdout).
\* The caller handles "spawn_failed": .expect() panics there.
get_child_pids(p, outcome, table) ==
    LET out == IF outcome = "ran" THEN PgrepStdout(p, table) ELSE <<>>
        parsed == [k \in 1..Len(out) |-> ParseI32(out[k])]
        kept == SelectSeq(parsed, LAMBDA r : r.ok)
    IN [k \in 1..Len(kept) |-> kept[k].v]

\* std::iter::once(pid).chain(get_child_pids(pid)).collect()
OurPids(p, outcome, table) == <<p>> \o get_child_pids(p, outcome, table)

\* the graphics list forgotten
DevicePidsComputeOnly(compute, graphics) == IF compute.ok THEN compute.v ELSE <<>>

\* unwrap_or_default() of both lists, chained
DevicePids(compute, graphics) ==
    (IF compute.ok THEN compute.v ELSE <<>>) \o (IF graphics.ok THEN graphics.v ELSE <<>>)

\* our_pids.iter().any(|&p| device_pids.contains(&p))
gpu_in_use_by_process(ours, theirs) ==
    \E a \in 1..Len(ours) : \E b \in 1..Len(theirs) : theirs[b] = ours[a]

\* the transitive process tree of p in the table: p, its children, theirs, ...
RECURSIVE Descendants(_, _)
Descendants(S, table) ==
    LET kids == {c \in table : Ppid(c) \in S} \ S
    IN IF kids = {} THEN S ELSE Descendants(S \cup kids, table)
ProcessTree(p, table) == Descendants({p}, table)

ComputeLists == {Err, Ok(<<>>), Ok(<<9, 1>>)}
GraphicsLists == {Err, Ok(<<>>), Ok(<<2>>), Ok(<<3>>)}

(***************************************************************************)
(* sample_metrics_fallback                                                 *)
(***************************************************************************)
\* the fallback without its gpu.count
FallbackWithoutCount == EmptyMap

sample_metrics_fallback == Insert(EmptyMap, "gpu.count", JsonInt(0))

(***************************************************************************)
(* Device readings: what the queries of one loop iteration return          *)
(***************************************************************************)
RequiredQueries ==
    {"name", "utilization_rates", "memory_info", "temperature", "power_usage",
     "graphics_clock", "mem_clock", "current_pcie_link_gen",
     "current_pcie_link_width", "max_pcie_link_gen", "max_pcie_link_width",
     "num_cores", "architecture"}

PowerLimits == {Err, Ok(0), Ok(250000)}
LinkSpeeds == {Err, Ok(U32(16)), Ok(U32Max)}

\* One reading per query of lines 62-162. A `?` returns at the first failing
\* required query and the later ones are never issued, so a reading with one
\* failing required query (failAt) stands for all that fail there first.
Reading(failAt, mem, pl, ls) ==
    LET R(f, v) == IF failAt = f THEN Err ELSE Ok(v)
    IN [name |-> R("name", "A100"),
        utilization_rates |-> R("utilization_rates", [gpu |-> 50, memory |-> 25]),
        memory_info |-> R("memory_info", mem),
        temperature |-> R("temperature", 60),
        power_usage |-> R("power_usage", 100000),
        enforced_power_limit |-> pl,
        graphics_clock |-> R("graphics_clock", 1500),
        mem_clock |-> R("mem_clock", 5000),
        current_pcie_link_gen |-> R("current_pcie_link_gen", 4),
        pcie_link_speed |-> ls,
        current_pcie_link_width |-> R("current_pcie_link_width", 16),
        max_pcie_link_gen |-> R("max_pcie_link_gen", 4),
        max_pcie_link_width |-> R("max_pcie_link_width", 16),
        num_cores |-> R("num_cores", 6912),
        architecture |-> R("architecture", "Ampere")]

\* the results of enforced_power_limit() and pcie_link_speed() on a device
\* with memory: each failing alone, both succeeding, and a limit of 0 mW
OptionalResults ==
    {<<Err, Ok(U32Max)>>, <<Ok(250000), Err>>, <<Ok(250000), Ok(U32Max)>>,
     <<Ok(0), Ok(U32Max)>>}

\* All required queries succeed on a device with memory, and a device that
\* reports no memory (total 0), with both optional queries succeeding or
\* both failing. With a failing required query the map is dropped whatever
\* the optional queries returned, so those readings vary them together.
Readings ==
    {Reading("none", [used |-> 4, total |-> 8], o[1], o[2]) : o \in OptionalResults}
    \cup {Reading(f, [used |-> 0, total |-> 0], Ok(250000), Ok(U32(16))) :
            f \in RequiredQueries \cup {"none"}}
    \cup {Reading(f, [used |-> 0, total |-> 0], Err, Err) :
            f \in RequiredQueries \cup {"none"}}

\* the first required query of the reading that fails, "none" when none does
FirstFailed(q) ==
    IF \E f \in RequiredQueries : ~q[f].ok
    THEN CHOOSE f \in RequiredQueries : ~q[f].ok
    ELSE "none"

(***************************************************************************)
(* sample_metrics, the body of the loop over devices after attribution     *)
(* (lines 62-166): Ok(map) or Err at the first failing `?`                 *)
(***************************************************************************)
\* `if gpu_in_use { metrics.insert(format!("gpu.process.{}.<f>", di), v) }`
InsertIfInUse(m, in_use, i, f, v) == IF in_use THEN Insert(m, ProcKey(i, f), v) ELSE m

\* the multiplication done in u32, before the widening
LinkSpeedBytesU32(x) == U64From(WrappingMul(x, U32(1000000)))

\* .map(u64::from).map(|x| x * 1000000)
LinkSpeedBytes(x) == WrappingMul(U64From(x), ToBytes(1000000, 8))

\* the power limit and the percentage left out of the process namespace
PowerLimitDeviceOnly(m, i, in_use, q, power_usage) ==
    IF ~q.enforced_power_limit.ok THEN m
    ELSE LET power_limit == F64Div(F64(q.enforced_power_limit.v), F64(1000))
             power_percent == F64Mul(F64Div(power_usage, power_limit), F64(100))
             a == Insert(m, DevKey(i, "enforcedPowerLimitWatts"), JsonF64(power_limit))
         IN Insert(a, DevKey(i, "powerPercent"), JsonF64(power_percent))

\* lines 112-131
PowerLimitMetrics(m, i, in_use, q, power_usage) ==
    IF ~q.enforced_power_limit.ok THEN m
    ELSE LET power_limit == F64Div(F64(q.enforced_power_limit.v), F64(1000))
             power_percent == F64Mul(F64Div(power_usage, power_limit), F64(100))
             a == Insert(m, DevKey(i, "enforcedPowerLimitWatts"), JsonF64(power_limit))
             b == Insert(a, DevKey(i, "powerPercent"), JsonF64(power_percent))
             c == InsertIfInUse(b, in_use, i, "enforcedPowerLimitWatts", JsonF64(power_limit))
         IN InsertIfInUse(c, in_use, i, "powerPercent", JsonF64(power_percent))

\* unwrap_or(0) in place of `if let Ok`: a failed query leaves a 0 in the map
LinkSpeedOrZero(m, i, q) ==
    Insert(m, DevKey(i, "pcieLinkSpeed"),
           JsonU64(IF q.pcie_link_speed.ok THEN LinkSpeedBytes(q.pcie_link_speed.v)
                   ELSE ToBytes(0, 8)))

\* lines 143-145
LinkSpeedMetrics(m, i, q) ==
    IF ~q.pcie_link_speed.ok THEN m
    ELSE Insert(m, DevKey(i, "pcieLinkSpeed"), JsonU64(LinkSpeedBytes(q.pcie_link_speed.v)))

\* a required metric wrongly taken as optional: the pass goes on without it
ArchitectureOptional(m, i, q) ==
    IF ~q.architecture.ok THEN Ok(m)
    ELSE Ok(Insert(m, DevKey(i, "architecture"), JsonString(q.architecture.v)))

\* lines 162-166
ArchitectureMetric(m, i, q) ==
    IF ~q.architecture.ok THEN Err
    ELSE Ok(Insert(m, DevKey(i, "architecture"), JsonString(q.architecture.v)))

\* lines 134-160, then the architecture
ClockAndLinkMetrics(m, i, q) ==
    IF ~q.graphics_clock.ok THEN Err ELSE
    LET m1 == Insert(m, DevKey(i, "graphicsClock"), JsonInt(q.graphics_clock.v)) IN
    IF ~q.mem_clock.ok THEN Err ELSE
    LET m2 == Insert(m1, DevKey(i, "memoryClock"), JsonInt(q.mem_clock.v)) IN
    IF ~q.current_pcie_link_gen.ok THEN Err ELSE
    LET m3 == Insert(m2, DevKey(i, "pcieLinkGen"), JsonInt(q.current_pcie_link_gen.v))
        m4 == LinkSpeedMetrics(m3, i, q) IN
    IF ~q.current_pcie_link_width.ok THEN Err ELSE
    LET m5 == Insert(m4, DevKey(i, "pcieLinkWidth"), JsonInt(q.current_pcie_link_width.v)) IN
    IF ~q.max_pcie_link_gen.ok THEN Err ELSE
    LET m6 == Insert(m5, DevKey(i, "maxPcieLinkGen"), JsonInt(q.max_pcie_link_gen.v)) IN
    IF ~q.max_pcie_link_width.ok THEN Err ELSE
    LET m7 == Insert(m6, DevKey(i, "maxPcieLinkWidth"), JsonInt(q.max_pcie_link_width.v)) IN
    IF ~q.num_cores.ok THEN Err ELSE
    LET m8 == Insert(m7, DevKey(i, "cudaCores"), JsonInt(q.num_cores.v)) IN
    ArchitectureMetric(m8, i, q)

\* lines 62-131, then the rest
DeviceMetrics(m, i, in_use, q) ==
    IF ~q.name.ok THEN Err ELSE
    LET m1 == Insert(m, DevKey(i, "name"), JsonString(q.name.v)) IN
    IF ~q.utilization_rates.ok THEN Err ELSE
    LET utilization == q.utilization_rates.v
        m2 == Insert(m1, DevKey(i, "gpu"), JsonInt(utilization.gpu))
        m3 == Insert(m2, DevKey(i, "memory"), JsonInt(utilization.memory))
        m4 == InsertIfInUse(m3, in_use, i, "gpu", JsonInt(utilization.gpu))
        m5 == InsertIfInUse(m4, in_use, i, "memory", JsonInt(utilization.memory)) IN
    IF ~q.memory_info.ok THEN Err ELSE
    LET memory_info == q.memory_info.v
        memory_allocated ==
            F64Mul(F64Div(F64(memory_info.used), F64(memory_info.total)), F64(100))
        m6 == Insert(m5, DevKey(i, "memoryTotal"), JsonInt(memory_info.total))
        m7 == Insert(m6, DevKey(i, "memoryAllocated"), JsonF64(memory_allocated))
        m8 == Insert(m7, DevKey(i, "memoryAllocatedBytes"), JsonInt(memory_info.used))
        m9 == InsertIfInUse(m8, in_use, i, "memoryAllocated", JsonF64(memory_allocated))
        m10 == InsertIfInUse(m9, in_use, i, "memoryAllocatedBytes", JsonInt(memory_info.used)) IN
    IF ~q.temperature.ok THEN Err ELSE
    LET m11 == Insert(m10, DevKey(i, "temp"), JsonInt(q.temperature.v))
        m12 == InsertIfInUse(m11, in_use, i, "temp", JsonInt(q.temperature.v)) IN
    IF ~q.power_usage.ok THEN Err ELSE
    LET power_usage == F64Div(F64(q.power_usage.v), F64(1000))
        m13 == Insert(m12, DevKey(i, "powerWatts"), JsonF64(power_usage))
        m14 == InsertIfInUse(m13, in_use, i, "powerWatts", JsonF64(power_usage))
        m15 == PowerLimitMetrics(m14, i, in_use, q, power_usage) IN
    ClockAndLinkMetrics(m15, i, q)

(***************************************************************************)
(* sample_metrics, before and after the loop over devices                  *)
(***************************************************************************)
\* gpu.count written as 0 before the devices are counted
SampleStartCountsNone(cuda_version, cnt) ==
    LET m0 == Insert(EmptyMap, "cuda_version", JsonString(cuda_version))
    IN IF ~cnt.ok THEN Err ELSE Ok(Insert(m0, "gpu.count", JsonInt(0)))

\* the range taken with its upper end: 0..=device_count
InRangeInclusive(i, n) == i <= n

\* line 58: `for di in 0..device_count` has an iteration for i
InRange(i, n) == i < n

\* lines 50-56: Ok(map) or Err when device_count() fails
SampleStart(cuda_version, cnt) ==
    LET m0 == Insert(EmptyMap, "cuda_version", JsonString(cuda_version))
    IN IF ~cnt.ok THEN Err ELSE Ok(Insert(m0, "gpu.count", JsonInt(cnt.v)))

\* the map returned without the duration of the sampling
SampleFinishNoDuration(m, duration_ms) == Ok(m)

\* lines 169-175
SampleFinish(m, duration_ms) == Ok(Insert(m, "_sampling_duration_ms", JsonInt(duration_ms)))

(***************************************************************************)
(* main                                                                    *)
(***************************************************************************)
\* format!("{}.{}", cuda_driver_version_major(v), cuda_driver_version_minor(v))
CudaVersionString(v) == ToString(v \div 1000) \o "." \o ToString((v % 1000) \div 10)

\* lines 215-218
MatchSample(res) == IF res.ok THEN res.v ELSE sample_metrics_fallback

\* lines 194-198: args().nth(1).unwrap_or("0").parse().unwrap_or(0)
ParsePidArg(argv) ==
    LET text == IF Len(argv) >= 1 THEN argv[1] ELSE "0"
        parsed == ParseI32(text)
    IN IF parsed.ok THEN parsed.v ELSE 0

\* serde_json::to_string of the map: one JSON object holding the map's keys
JsonLine(m) == [kind |-> "json", keys |-> DOMAIN m]
TextLine(t) == [kind |-> "text", text |-> t]

ArgvChoices == {<<>>, <<"abc">>, <<"1">>}
DriverVersions == {Err, Ok(12020)}
SamplingDurations == {3}
Timestamps == {1730628000}
DeviceFailures == RequiredQueries \cup {"device_count", "device_by_index"}

\* Duration::from_secs(1) of lines 239-240, in ms
Period == 1000
\* what sampling_start.elapsed() may return at line 233, in ms
LoopDurations == {400, 1000, 1500}
\* ms spent by lines 234-238 and by thread::sleep beyond its argument
Overheads == {0, 5}

\* a sleep of the whole period whatever the pass took
SleepWholePeriod(elapsed) == Period

\* lines 239-241: the argument of thread::sleep, 0 standing for no call
SleepDuration(elapsed) == IF elapsed < Period THEN Period - elapsed ELSE 0

Init ==
    /\ pc = "start"
    /\ nvml_result = "none"
    /\ pid = 0
    /\ stdout = <<>>
    /\ gpu_metrics = EmptyMap
    /\ metrics = EmptyMap
    /\ device_count = 0
    /\ di = 0
    /\ gpu_in_use = FALSE
    /\ our_pids = <<>>
    /\ first_pids = <<>>
    /\ tree_use = FALSE
    /\ alive \in {S \in SUBSET Pids : TableOk(S)}
    /\ installed \in 0..MaxDevices
    /\ init_calls = 0
    /\ init_ok = FALSE
    /\ failed_query = "none"
    /\ prev_failed = FALSE
    /\ pgrep_outcome = "none"
    /\ attributed = {}
    /\ pl_failed = {}
    /\ ls_failed = {}
    /\ timestamp = 0
    /\ loop_duration = 0
    /\ slept = 0
    /\ since_start = 0

\* lines 179-198
Startup ==
    /\ pc = "start"
    /\ \E r \in {"Ok", "Err"}, argv \in ArgvChoices :
        /\ nvml_result' = r
        /\ init_ok' = (r = "Ok")
        /\ pid' = ParsePidArg(argv)
    /\ init_calls' = init_calls + 1
    /\ stdout' = stdout \o <<TextLine("NVML initialization time"),
                             TextLine("Total startup time")>>
    /\ pc' = "loop"
    /\ UNCHANGED <<gpu_metrics, metrics, device_count, di, gpu_in_use, our_pids, first_pids,
                   tree_use, alive, installed, failed_query, prev_failed,
                   pgrep_outcome, attributed, pl_failed, ls_failed, timestamp, clock>>

\* lines 200-223 with 49-58: the start of a pass up to the loop over devices
BeginPass ==
    /\ pc = "loop"
    /\ stdout' = <<>>
    /\ timestamp' \in Timestamps
    /\ \E ver \in DriverVersions, cnt \in {Err, Ok(installed)}, dur \in SamplingDurations :
        LET sampling == nvml_result = "Ok" /\ ver.ok
            res == IF sampling THEN SampleStart(CudaVersionString(ver.v), cnt) ELSE Err
        IN /\ failed_query' = IF ~init_ok THEN "init"
                              ELSE IF ~ver.ok THEN "sys_cuda_driver_version"
                              ELSE IF ~cnt.ok THEN "device_count"
                              ELSE "none"
           /\ IF sampling /\ res.ok /\ InRange(0, cnt.v)
              THEN /\ pc' = "device"
                   /\ metrics' = res.v
                   /\ device_count' = cnt.v
                   /\ gpu_metrics' = EmptyMap
              ELSE /\ pc' = "emit"
                   /\ metrics' = EmptyMap
                   /\ device_count' = 0
                   /\ gpu_metrics' =
                        IF ~sampling THEN sample_metrics_fallback
                        ELSE IF res.ok THEN MatchSample(SampleFinish(res.v, dur))
                        ELSE MatchSample(res)
    /\ di' = 0
    /\ loop_duration' = 0
    /\ slept' = 0
    /\ since_start' = 0
    /\ UNCHANGED <<nvml_result, pid, gpu_in_use, our_pids, first_pids, tree_use, alive,
                   installed, init_calls, init_ok, prev_failed, pgrep_outcome, attributed,
                   pl_failed, ls_failed>>

\* line 59 failing: device_by_index(di)? returns Err from sample_metrics
HandleFailed ==
    /\ pc' = "emit"
    /\ gpu_metrics' = MatchSample(Err)
    /\ failed_query' = "device_by_index"
    /\ metrics' = EmptyMap
    /\ attributed' = {}
    /\ pl_failed' = {}
    /\ ls_failed' = {}
    /\ first_pids' = <<>>
    /\ UNCHANGED <<gpu_in_use, our_pids, tree_use, pgrep_outcome>>

\* line 60 with 16-41: gpu_in_use_by_process(&device, pid)
Attribute(outcome, compute, graphics) ==
    IF outcome = "spawn_failed"
    THEN /\ pc' = "panicked"
         /\ pgrep_outcome' = outcome
         /\ UNCHANGED <<gpu_metrics, failed_query, metrics, attributed, pl_failed,
                        ls_failed, gpu_in_use, our_pids, first_pids, tree_use>>
    ELSE LET ours == OurPids(pid, outcome, alive)
             theirs == DevicePids(compute, graphics)
             reported == (IF compute.ok THEN ToSet(compute.v) ELSE {})
                            \cup (IF graphics.ok THEN ToSet(graphics.v) ELSE {})
         IN /\ pc' = "metrics"
            /\ our_pids' = ours
            /\ first_pids' = IF di = 0 THEN ours ELSE <<>>
            /\ gpu_in_use' = gpu_in_use_by_process(ours, theirs)
            /\ pgrep_outcome' = outcome
            /\ tree_use' = (ProcessTree(pid, alive) \cap reported # {})
            /\ attributed' = IF ToSet(ours) \cap reported # {}
                             THEN attributed \cup {di} ELSE attributed
            /\ UNCHANGED <<gpu_metrics, failed_query, metrics, pl_failed, ls_failed>>

\* lines 59-60: the handle of device di and its attribution
AttributeDevice ==
    /\ pc = "device"
    /\ \/ HandleFailed
       \/ \E outcome \in PgrepOutcomes, compute \in ComputeLists,
             graphics \in GraphicsLists : Attribute(outcome, compute, graphics)
    /\ UNCHANGED <<nvml_result, pid, stdout, device_count, di, alive, installed,
                   init_calls, init_ok, prev_failed, timestamp, clock>>

\* lines 62-166 for device di, then the next iteration or lines 169-175
SampleDevice ==
    /\ pc = "metrics"
    /\ \E q \in Readings, dur \in SamplingDurations :
        LET res == DeviceMetrics(metrics, di, gpu_in_use, q)
        IN /\ failed_query' = FirstFailed(q)
           /\ IF ~res.ok
              THEN /\ pc' = "emit"
                   /\ gpu_metrics' = MatchSample(res)
                   /\ metrics' = EmptyMap
                   /\ di' = di
                   /\ attributed' = {}
                   /\ pl_failed' = {}
                   /\ ls_failed' = {}
              ELSE /\ attributed' = attributed
                   /\ pl_failed' = IF q.enforced_power_limit.ok THEN pl_failed
                                   ELSE pl_failed \cup {di}
                   /\ ls_failed' = IF q.pcie_link_speed.ok THEN ls_failed
                                   ELSE ls_failed \cup {di}
                   /\ di' = di + 1
                   /\ IF InRange(di + 1, device_count)
                      THEN /\ pc' = "device"
                           /\ metrics' = res.v
                           /\ gpu_metrics' = gpu_metrics
                      ELSE /\ pc' = "emit"
                           /\ metrics' = EmptyMap
                           /\ gpu_metrics' = MatchSample(SampleFinish(res.v, dur))
    /\ gpu_in_use' = FALSE
    /\ our_pids' = <<>>
    /\ first_pids' = IF pc' = "emit" THEN <<>> ELSE first_pids
    /\ tree_use' = FALSE
    /\ pgrep_outcome' = "none"
    /\ UNCHANGED <<nvml_result, pid, stdout, device_count, alive, installed,
                   init_calls, init_ok, prev_failed, timestamp, clock>>

\* lines 225-238, but for the reading of the clock at line 233
Emit ==
    /\ pc = "emit"
    /\ gpu_metrics' = Insert(gpu_metrics, "_timestamp", JsonF64(F64(timestamp)))
    /\ stdout' = stdout \o <<JsonLine(gpu_metrics'), TextLine("Total loop time"),
                             TextLine("Serialization time")>>
    /\ pc' = "sleep"
    /\ UNCHANGED <<nvml_result, pid, metrics, device_count, di, gpu_in_use, our_pids, first_pids,
                   tree_use, alive, installed, init_calls, init_ok, failed_query,
                   prev_failed, pgrep_outcome, attributed, pl_failed, ls_failed,
                   timestamp, clock>>

\* the initialisation tried again at the end of a pass that had no handle
SleepReinit ==
    /\ pc = "sleep"
    /\ pc' = "loop"
    /\ gpu_metrics' = EmptyMap
    /\ device_count' = 0
    /\ di' = 0
    /\ prev_failed' = (failed_query \in DeviceFailures)
    /\ failed_query' = "none"
    /\ attributed' = {}
    /\ pl_failed' = {}
    /\ ls_failed' = {}
    /\ \E elapsed \in LoopDurations, over \in Overheads :
        /\ loop_duration' = elapsed
        /\ slept' = SleepDuration(elapsed)
        /\ since_start' = elapsed + over + slept'
    /\ \E r \in {"Ok", "Err"} :
        /\ nvml_result' = IF nvml_result = "Err" THEN r ELSE nvml_result
        /\ init_calls' = IF nvml_result = "Err" THEN init_calls + 1 ELSE init_calls
    /\ stdout' = <<>>
    /\ UNCHANGED <<pid, metrics, gpu_in_use, our_pids, first_pids,
                   tree_use, alive, installed, init_ok, pgrep_outcome,
                   timestamp>>

\* the handle dropped at the end of a pass in which a required query failed
SleepDropsHandle ==
    /\ pc = "sleep"
    /\ pc' = "loop"
    /\ gpu_metrics' = EmptyMap
    /\ device_count' = 0
    /\ di' = 0
    /\ prev_failed' = (failed_query \in DeviceFailures)
    /\ failed_query' = "none"
    /\ attributed' = {}
    /\ pl_failed' = {}
    /\ ls_failed' = {}
    /\ \E elapsed \in LoopDurations, over \in Overheads :
        /\ loop_duration' = elapsed
        /\ slept' = SleepDuration(elapsed)
        /\ since_start' = elapsed + over + slept'
    /\ nvml_result' = IF failed_query \in DeviceFailures THEN "Err" ELSE nvml_result
    /\ stdout' = <<>>
    /\ UNCHANGED <<pid, metrics, gpu_in_use, our_pids, first_pids,
                   tree_use, alive, installed, init_calls, init_ok, pgrep_outcome,
                   timestamp>>

\* line 233 and lines 239-242: the reading of the clock, the sleep, the end
\* of the iteration and the jump back
Sleep ==
    /\ pc = "sleep"
    /\ pc' = "loop"
    /\ gpu_metrics' = EmptyMap
    /\ device_count' = 0
    /\ di' = 0
    /\ prev_failed' = (failed_query \in DeviceFailures)
    /\ failed_query' = "none"
    /\ attributed' = {}
    /\ pl_failed' = {}
    /\ ls_failed' = {}
    /\ \E elapsed \in LoopDurations, over \in Overheads :
        /\ loop_duration' = elapsed
        /\ slept' = SleepDuration(elapsed)
        /\ since_start' = elapsed + over + slept'
    /\ stdout' = <<>>
    /\ UNCHANGED <<nvml_result, pid, metrics, gpu_in_use, our_pids, first_pids,
                   tree_use, alive, installed, init_calls, init_ok, pgrep_outcome,
                   timestamp>>

\* environment: a process of the table starts
Spawn(p) ==
    /\ p \notin alive
    /\ TableOk(alive \cup {p})
    /\ alive' = alive \cup {p}
    /\ UNCHANGED <<pc, nvml_result, pid, stdout, gpu_metrics, metrics, device_count,
                   di, gpu_in_use, our_pids, first_pids, tree_use, installed, init_calls, init_ok,
                   failed_query, prev_failed, pgrep_outcome, attributed, pl_failed,
                   ls_failed, timestamp, clock>>

\* environment: a process of the table without live children exits
Exit(p) ==
    /\ p \in alive
    /\ TableOk(alive \ {p})
    /\ alive' = alive \ {p}
    /\ UNCHANGED <<pc, nvml_result, pid, stdout, gpu_metrics, metrics, device_count,
                   di, gpu_in_use, our_pids, first_pids, tree_use, installed, init_calls, init_ok,
                   failed_query, prev_failed, pgrep_outcome, attributed, pl_failed,
                   ls_failed, timestamp, clock>>

Next ==
    \/ Startup
    \/ BeginPass
    \/ AttributeDevice
    \/ SampleDevice
    \/ Emit
    \/ Sleep
    \/ \E p \in Pids : Spawn(p)
    \/ \E p \in Pids : Exit(p)

Spec == Init /\ [][Next]_vars

\* the steps of main, the program's single thread
Step ==
    \/ Startup
    \/ BeginPass
    \/ AttributeDevice
    \/ SampleDevice
    \/ Emit
    \/ Sleep

\* main keeps running while it has a step to take: every query returns and
\* the sleep ends
FairSpec == Init /\ [][Next]_vars /\ WF_vars(Step)

(***************************************************************************)
(* Vocabulary of the properties                                            *)
(***************************************************************************)
\* The pass has printed its record: gpu_metrics is the record of the line.
Emitted == pc = "sleep"
Keys == DOMAIN gpu_metrics
Has(k) == k \in DOMAIN gpu_metrics
Devices == 0..(MaxDevices - 1)

RequiredFields ==
    {"name", "gpu", "memory", "memoryTotal", "memoryAllocated", "memoryAllocatedBytes",
     "temp", "powerWatts", "graphicsClock", "memoryClock", "pcieLinkGen",
     "pcieLinkWidth", "maxPcieLinkGen", "maxPcieLinkWidth", "cudaCores", "architecture"}
PowerLimitFields == {"enforcedPowerLimitWatts", "powerPercent"}
DeviceFields ==
    RequiredFields \cup PowerLimitFields
        \cup {"pcieLinkSpeed", "brand", "fanSpeed", "encoderUtilization"}
ProcessFields ==
    {"gpu", "memory", "memoryAllocated", "memoryAllocatedBytes", "temp", "powerWatts",
     "enforcedPowerLimitWatts", "powerPercent"}

DevKeys(i) == {DevKey(i, f) : f \in DeviceFields}
ProcKeys(i) == {ProcKey(i, f) : f \in DeviceFields}
PowerLimitKeys(i) ==
    {DevKey(i, f) : f \in PowerLimitFields} \cup {ProcKey(i, f) : f \in PowerLimitFields}
NoDeviceKeys == \A i \in Devices : Keys \cap (DevKeys(i) \cup ProcKeys(i)) = {}

\* the record of sample_metrics_fallback with the timestamp of the pass
IsFallbackRecord ==
    /\ Keys = {"gpu.count", "_timestamp"}
    /\ gpu_metrics["gpu.count"] = JsonInt(0)

\* every query of the pass succeeded and the record carries all its devices
IsFullRecord ==
    /\ Has("gpu.count")
    /\ gpu_metrics["gpu.count"] = JsonInt(installed)
    /\ \A i \in Devices : i < installed => \A f \in RequiredFields : Has(DevKey(i, f))

JsonLines == {k \in 1..Len(stdout) : stdout[k].kind = "json"}

(***************************************************************************)
(* C1: whatever failed in the pass, the record it prints holds the keys    *)
(* gpu.count and _timestamp.                                               *)
(***************************************************************************)
C1_CountAndTimestamp ==
    /\ Emitted => {"gpu.count", "_timestamp"} \subseteq Keys
    /\ \A k \in JsonLines : {"gpu.count", "_timestamp"} \subseteq stdout[k].keys

\* a line has been printed by a pass in which a device query failed
C1_Witness ==
    /\ Emitted
    /\ failed_query \in RequiredQueries
    /\ JsonLines # {}

(***************************************************************************)
(* C2: once the loop runs, standard output receives exactly one line per   *)
(* pass and that line is a JSON object.                                    *)
(***************************************************************************)
C2_OneJsonLinePerPass ==
    Emitted => /\ Len(stdout) = 1
               /\ stdout[1].kind = "json"

(***************************************************************************)
(* C3: NVML is initialised once, at startup; after a failed initialisation *)
(* the handle stays absent and every pass prints exactly gpu.count = 0     *)
(* and _timestamp.                                                         *)
(***************************************************************************)
C3_InitFailureIsPermanent ==
    [][/\ pc # "start" => (init_calls' = init_calls /\ nvml_result' = nvml_result)
       /\ (nvml_result' = "Err" /\ pc' = "sleep") =>
             /\ DOMAIN gpu_metrics' = {"gpu.count", "_timestamp"}
             /\ gpu_metrics'["gpu.count"] = JsonInt(0)
             /\ init_calls' = 1]_vars

\* a pass of a process whose initialisation failed has printed its record
\* on a machine that has devices
C3_Witness ==
    /\ Emitted
    /\ nvml_result = "Err"
    /\ installed > 0

(***************************************************************************)
(* C4: when device_count, device_by_index or a required metric query fails *)
(* for any device, the pass prints the zero-device fallback record, with   *)
(* no key of any device, also of those sampled before the failure.         *)
(***************************************************************************)
C4_AllOrNothing ==
    (Emitted /\ failed_query \in DeviceFailures) =>
        /\ IsFallbackRecord
        /\ NoDeviceKeys

\* the second device failed a required query after the first was sampled
C4_Witness ==
    /\ Emitted
    /\ failed_query \in RequiredQueries
    /\ di >= 1

(***************************************************************************)
(* C5: a failing required query is not sticky: the pass that failed still  *)
(* reaches its emission and the sleep, and a later pass whose queries all  *)
(* succeed prints a full record with gpu.count the reported device count.  *)
(***************************************************************************)
C5_FailureNotSticky ==
    /\ failed_query \in DeviceFailures => pc \in {"emit", "sleep"}
    /\ (Emitted /\ prev_failed /\ failed_query = "none") => IsFullRecord

\* the pass after a failed one has printed a full record of two devices
C5_Witness ==
    /\ Emitted
    /\ prev_failed
    /\ failed_query = "none"
    /\ installed = 2
    /\ Has(DevKey(1, "architecture"))

(***************************************************************************)
(* C6: when only the driver-version lookup fails, the record still carries *)
(* gpu.count equal to the reported device count and the device keys, and   *)
(* lacks cuda_version alone.                                               *)
(***************************************************************************)
C6_VersionFailureKeepsDevices ==
    (Emitted /\ failed_query = "sys_cuda_driver_version") =>
        /\ IsFullRecord
        /\ ~Has("cuda_version")

\* the device's part of the map with the optional results pl and ls, against
\* the same readings with both queries succeeding
OptionalStaysLocal(m, i, in_use, q, pl, ls) ==
    LET got == DeviceMetrics(m, i, in_use,
                   [q EXCEPT !.enforced_power_limit = pl, !.pcie_link_speed = ls])
        all == DeviceMetrics(m, i, in_use,
                   [q EXCEPT !.enforced_power_limit = IF pl.ok THEN pl ELSE Ok(250000),
                             !.pcie_link_speed = IF ls.ok THEN ls ELSE Ok(U32(16))])
        gone == (IF pl.ok THEN {} ELSE PowerLimitKeys(i))
                    \cup (IF ls.ok THEN {} ELSE {DevKey(i, "pcieLinkSpeed")})
    IN /\ got.ok
       /\ all.ok
       /\ DOMAIN got.v = (DOMAIN all.v) \ gone
       /\ \A k \in DOMAIN got.v : k \in DOMAIN all.v /\ got.v[k] = all.v[k]

(***************************************************************************)
(* C7: a failing enforced_power_limit() or pcie_link_speed() never aborts  *)
(* the pass, and the record differs from the one the pass prints when the  *)
(* query succeeds only by lacking the keys of that query.                  *)
(***************************************************************************)
C7_OptionalFailuresStayLocal ==
    /\ (Emitted /\ failed_query = "none") =>
          \A i \in Devices : i < installed =>
              /\ \A f \in RequiredFields : Has(DevKey(i, f))
              /\ \A f \in PowerLimitFields :
                    /\ Has(DevKey(i, f)) <=> i \notin pl_failed
                    /\ Has(ProcKey(i, f)) <=> (i \notin pl_failed /\ Has(ProcKey(i, "gpu")))
              /\ Has(DevKey(i, "pcieLinkSpeed")) <=> i \notin ls_failed
    /\ pc = "metrics" =>
          \A pl \in PowerLimits, ls \in LinkSpeeds :
              OptionalStaysLocal(metrics, di, gpu_in_use,
                                 Reading("none", [used |-> 4, total |-> 8], pl, ls), pl, ls)

\* a record of two devices: the first lacks the power limit, the second
\* the link speed, and each has the other
C7_Witness ==
    /\ Emitted
    /\ failed_query = "none"
    /\ pl_failed = {0}
    /\ ls_failed = {1}
    /\ Has(DevKey(1, "powerPercent"))
    /\ Has(DevKey(0, "pcieLinkSpeed"))

(***************************************************************************)
(* C8: in the record of a successful pass device i has gpu.process.<i>     *)
(* keys exactly when the resolved process set shares a pid with the        *)
(* compute and graphics pids the device reported, a list that could not be *)
(* read counting as empty and failing nothing.                             *)
(***************************************************************************)
C8_ProcessKeysIffAttributed ==
    (Emitted /\ failed_query = "none") =>
        /\ IsFullRecord
        /\ \A i \in Devices : (Keys \cap ProcKeys(i) # {}) <=> i \in attributed

\* of two devices the second alone is used by the target's processes
C8_Witness ==
    /\ Emitted
    /\ failed_query = "none"
    /\ installed = 2
    /\ attributed = {1}
    /\ Has(ProcKey(1, "memory"))

(***************************************************************************)
(* C9: the process set of the attribution holds the target pid and all its *)
(* transitive descendants, so a device used only by a grandchild of the    *)
(* target is attributed to it.                                             *)
(***************************************************************************)
C9_TransitiveDescendants ==
    [][(pc = "device" /\ pc' = "metrics" /\ pgrep_outcome' = "ran") =>
          /\ ProcessTree(pid, alive) \subseteq ToSet(our_pids')
          /\ tree_use' => gpu_in_use']_vars

(***************************************************************************)
(* C10: a failing process-table query, the helper not starting included,   *)
(* counts as no children: the attribution uses the root pid alone and the  *)
(* process goes on.                                                        *)
(***************************************************************************)
C10_PgrepFailureTolerated ==
    pgrep_outcome \in {"error", "spawn_failed"} =>
        /\ pc # "panicked"
        /\ our_pids = <<pid>>

(***************************************************************************)
(* C11: after each pass the scheduler sleeps max(0, 1 s - elapsed), with   *)
(* elapsed read after the record is printed: a pass shorter than the       *)
(* period is followed by the next one no earlier than one period after it  *)
(* began, a pass of the period or longer is followed with no sleep, and no *)
(* pass begins before the previous one has printed its record.             *)
(***************************************************************************)
C11_SleepTopsUpThePeriod ==
    [][(pc = "sleep" /\ pc' = "loop") =>
          /\ JsonLines # {}
          /\ loop_duration' < Period =>
                /\ slept' = Period - loop_duration'
                /\ since_start' >= Period
          /\ loop_duration' >= Period => slept' = 0]_vars

\* a pass shorter than the period has been topped up by its sleep
C11_Witness ==
    /\ pc = "loop"
    /\ loop_duration > 0
    /\ loop_duration < Period
    /\ slept > 0
    /\ since_start >= Period

(***************************************************************************)
(* C12: in every printed record every key maps to a number, a string or a  *)
(* boolean, never to null, whatever the device reports, a total memory of  *)
(* 0 bytes and an enforced power limit of 0 mW included.                   *)
(***************************************************************************)
C12_NoNullValues ==
    Emitted => \A k \in Keys : gpu_metrics[k].tag \in {"number", "string", "bool"}

\* The devices whose fan_speed(0), encoder_utilization() and brand() would
\* succeed. main.rs never issues these queries, so their results cannot
\* bear on a run: every device is taken to answer them.
Answering == Devices

(***************************************************************************)
(* C13: in a pass that succeeds the record holds gpu.<i>.fanSpeed,         *)
(* gpu.<i>.encoderUtilization and gpu.<i>.brand for every device i whose   *)
(* fan-speed, encoder-utilization and brand queries would succeed.         *)
(***************************************************************************)
C13_FanEncoderBrand ==
    (Emitted /\ failed_query = "none") =>
        \A i \in Answering : i < installed =>
            /\ Has(DevKey(i, "fanSpeed"))
            /\ Has(DevKey(i, "encoderUtilization"))
            /\ Has(DevKey(i, "brand"))

\* Every key of a record is one of the three below, gpu.count, or a key
\* built by DevKey or ProcKey: the keys beginning with "gpu." are the rest.
BeginsWithGpu(k) == k \notin {"cuda_version", "_timestamp", "_sampling_duration_ms"}

(***************************************************************************)
(* C14: a printed record whose gpu.count is 0 holds no other key beginning *)
(* with "gpu.", be it the fallback record or the record of a successful    *)
(* pass on a machine that reports no device.                               *)
(***************************************************************************)
C14_ZeroCountNoDeviceKeys ==
    (Emitted /\ Has("gpu.count") /\ gpu_metrics["gpu.count"] = JsonInt(0)) =>
        \A k \in Keys : BeginsWithGpu(k) => k = "gpu.count"

\* a successful pass on a machine without devices has printed its record
C14_Witness ==
    /\ Emitted
    /\ failed_query = "none"
    /\ installed = 0
    /\ Has("cuda_version")
    /\ gpu_metrics["gpu.count"] = JsonInt(0)

(***************************************************************************)
(* C15: as long as every device query and every process-table query        *)
(* returns, with success or with failure, each pass that has begun prints  *)
(* its record and is followed by another pass: records are printed again   *)
(* and again whatever fails, and the loop has no terminal state.           *)
(***************************************************************************)
C15_RecordsForever ==
    /\ [](pc \in {"device", "metrics", "emit"} => <>(pc = "sleep"))
    /\ [](pc = "sleep" => <>(pc = "loop"))
    /\ []<>(pc = "sleep")

\* the bytes k..1 of a divided by d, rem coming from the bytes above:
\* the quotient (little-endian) and the remainder
RECURSIVE DivFrom(_, _, _, _)
DivFrom(a, d, k, rem) ==
    IF k = 0 THEN [quot |-> <<>>, rem |-> rem]
    ELSE LET cur == rem * 256 + a[k]
             low == DivFrom(a, d, k - 1, cur % d)
         IN [quot |-> low.quot \o <<cur \div d>>, rem |-> low.rem]

\* the 64-bit number n is v * 1000000 as an integer, v being 32 bits wide
IsMillionTimes(n, v) == DivFrom(n, 1000000, 8, 0) = [quot |-> v \o <<0, 0, 0, 0>>, rem |-> 0]

(***************************************************************************)
(* C16: for a device whose pcie_link_speed() succeeds with v, any 32-bit   *)
(* unsigned value, the record's gpu.<i>.pcieLinkSpeed is v * 1000000       *)
(* exactly, without wrap-around; 16 gives 16000000.                        *)
(***************************************************************************)
C16_LinkSpeedExact ==
    /\ pc = "metrics" =>
          \A ls \in LinkSpeeds : ls.ok =>
              LET res == DeviceMetrics(metrics, di, gpu_in_use,
                             Reading("none", [used |-> 4, total |-> 8], Err, ls))
              IN /\ res.ok
                 /\ DevKey(di, "pcieLinkSpeed") \in DOMAIN res.v
                 /\ res.v[DevKey(di, "pcieLinkSpeed")].tag = "number"
                 /\ IsMillionTimes(res.v[DevKey(di, "pcieLinkSpeed")].u64, ls.v)
                 /\ ls.v = U32(16) =>
                        res.v[DevKey(di, "pcieLinkSpeed")].u64 = ToBytes(16000000, 8)
    /\ Emitted =>
          \A i \in Devices : Has(DevKey(i, "pcieLinkSpeed")) =>
              \E ls \in LinkSpeeds :
                  ls.ok /\ IsMillionTimes(gpu_metrics[DevKey(i, "pcieLinkSpeed")].u64, ls.v)

\* a record with the link speed of a device that reported the largest
\* 32-bit value: 4294967295000000 = 0x000F423FFFF0BDC0
C16_Witness ==
    /\ Emitted
    /\ Has(DevKey(0, "pcieLinkSpeed"))
    /\ gpu_metrics[DevKey(0, "pcieLinkSpeed")].u64 = <<192, 189, 240, 255, 63, 66, 15, 0>>

(***************************************************************************)
(* C17: in every printed record and for every device i with a              *)
(* gpu.process.<i> key, each of the eight attributable fields is present   *)
(* under gpu.process.<i> exactly when it is present under gpu.<i>, with    *)
(* the same value; no other field ever appears under gpu.process.<i>.      *)
(***************************************************************************)
C17_ProcessMirrorsDevice ==
    Emitted =>
        \A i \in Devices :
            /\ Keys \cap ProcKeys(i) # {} =>
                  \A f \in ProcessFields :
                      /\ Has(ProcKey(i, f)) <=> Has(DevKey(i, f))
                      /\ Has(ProcKey(i, f)) /\ Has(DevKey(i, f)) =>
                            gpu_metrics[ProcKey(i, f)] = gpu_metrics[DevKey(i, f)]
            /\ \A f \in DeviceFields \ ProcessFields : ~Has(ProcKey(i, f))

\* both devices are attributed: the first without a power limit, the second
\* with all eight fields
C17_Witness ==
    /\ Emitted
    /\ Has(ProcKey(0, "gpu"))
    /\ ~Has(ProcKey(0, "powerPercent"))
    /\ \A f \in ProcessFields : Has(ProcKey(1, f))

(***************************************************************************)
(* C18: within one pass the process set is resolved once and every device  *)
(* of the pass is attributed against that same set, so a change of the     *)
(* target's children between two devices cannot make one record be         *)
(* attributed against different process sets.                              *)
(* Stated for the passes in which pgrep listed a child for the first       *)
(* device and ran again without error for a later one: there the two sets  *)
(* can differ only because the children changed in between.                *)
(***************************************************************************)
C18_OneProcessSetPerPass ==
    [][(/\ pc = "device"
        /\ pc' = "metrics"
        /\ di = 1
        /\ Len(first_pids) > 1
        /\ pgrep_outcome' = "ran") =>
          ToSet(our_pids') = ToSet(first_pids)]_vars

\* the step runs pgrep: line 17, reached from line 60 through line 29
PgrepInvoked == pgrep_outcome = "none" /\ pgrep_outcome' # "none"

(***************************************************************************)
(* C19: pgrep is run only in a pass in which the library is initialised,   *)
(* the driver version was read, device_count() succeeded with at least one *)
(* device and the handle of the current device was obtained, never in a    *)
(* pass that falls back for want of the library nor in a pass without      *)
(* devices; and it runs before every metric query of its device.           *)
(***************************************************************************)
C19_PgrepOnlyForAHandle ==
    [][PgrepInvoked =>
          /\ init_ok
          /\ nvml_result = "Ok"
          /\ failed_query = "none"
          /\ failed_query' = "none"
          /\ "cuda_version" \in DOMAIN metrics
          /\ installed >= 1
          /\ device_count >= 1
          /\ di < device_count
          /\ pc = "device"
          /\ pc' \in {"metrics", "panicked"}
          /\ DOMAIN metrics \cap (DevKeys(di) \cup ProcKeys(di)) = {}]_vars

\* pgrep has run for the second device of a pass, whose metrics are not
\* read yet
C19_Witness ==
    /\ pc = "metrics"
    /\ di = 1
    /\ pgrep_outcome = "ran"
    /\ DOMAIN metrics \cap DevKeys(1) = {}
    /\ DOMAIN metrics \cap DevKeys(0) # {}

(***************************************************************************)
(* C20: a printed record holds cuda_version and _sampling_duration_ms      *)
(* together or not at all, and holds them exactly when the sampling of the *)
(* pass succeeded: a fallback record has no cuda_version even if the       *)
(* driver version was read in its pass, and the record of a successful     *)
(* pass without devices differs from a fallback record.                    *)
(***************************************************************************)
C20_VersionAndDurationTogether ==
    /\ Emitted =>
          /\ Has("cuda_version") <=> Has("_sampling_duration_ms")
          /\ Has("cuda_version") <=> failed_query = "none"
          /\ failed_query # "none" => IsFallbackRecord
          /\ failed_query = "none" => ~IsFallbackRecord
    /\ \A k \in JsonLines :
          "cuda_version" \in stdout[k].keys <=> "_sampling_duration_ms" \in stdout[k].keys

\* a pass that read the driver version and then failed a device query has
\* printed its record
C20_Witness ==
    /\ Emitted
    /\ failed_query \in DeviceFailures
    /\ JsonLines # {}
    /\ ~Has("cuda_version")

====
